---- MODULE Spec2Model ----
(***************************************************************************)
(* Model of the graph-database-benchmark host side:                        *)
(*   - the progress / timeout coordination protocol                        *)
(*     (src/host/progress_server.py, src/host/timeout_monitor.py);         *)
(*   - the workload compiler (src/host/compiler/workload_compiler.py).     *)
(*                                                                         *)
(* Time is counted in milliseconds.  The HTTP server is a plain            *)
(* HTTPServer, so requests are handled one at a time on the server thread; *)
(* every threading.Timer runs on a thread of its own.  The sections of the *)
(* monitor that run under `with self.lock` are atomic steps here; the test *)
(* of the timer's `finished` event that precedes the call of               *)
(* _handle_timeout is a step of its own, because it happens outside the    *)
(* lock.                                                                   *)
(***************************************************************************)
EXTENDS Integers, Sequences, FiniteSets, TLC

\* ---------------------------------------------------------------- bounds
\* number of timers (arms of the watchdog) one run may create
MaxStarts == 3
\* largest num_ops an event carries
MaxOps == 2

\* ------------------------------------------------------ program constants
\* timeout_seconds = num_ops * 0.01, i.e. 10 ms per operation
MsPerOp == 10

VARIABLES
    restore_expected,   \* ProgressHandler.restore_expected
    timeout_monitor,    \* ProgressHandler.timeout_monitor is set
    current_timer,      \* TimeoutMonitor.current_timer (0 = None)
    current_subtask,    \* TimeoutMonitor.current_subtask (NoSubtask = None)
    timers,             \* the threading.Timer objects created so far
    ntimers,            \* number of timers created so far
    callback_log,       \* arguments of the calls of timeout_callback, in order
    response,           \* what do_POST answered to the last request
    cancelled_arms,     \* history: arms disarmed by cancel_subtask_timer
    superseded_arms,    \* history: arms replaced by a later start_subtask_timer
    complete_pending,   \* history: the last protocol event was a subtask_complete
    compiler,           \* the fields of the WorkloadCompiler instance
    rng,                \* the state of the process-wide `random` generator
    out_dir,            \* workloads/compiled/<dataset_name>
    call,               \* the arguments of the compile_workload call
    compile_result,     \* "pending", "ok", or the exception the call raised
    server_pc,          \* per ProgressServer object: where its start/stop is
    orphan_subtask,     \* current_subtask of a TimeoutMonitor that was replaced
    orphan_timers,      \* the timers created by the replaced TimeoutMonitor
    lock,               \* TimeoutMonitor.lock: 0 free, else the holding thread
    srv,                \* the server thread inside a TimeoutMonitor method
    launcher            \* BenchmarkLauncher.run from the container start on

wvars == <<restore_expected, timeout_monitor, current_timer, current_subtask,
           timers, ntimers, callback_log, response, cancelled_arms,
           superseded_arms, complete_pending>>

cvars == <<compiler, rng, out_dir, call, compile_result>>

svars == <<server_pc, orphan_subtask, orphan_timers>>

lvars == <<lock, srv>>

xvars == <<svars, lvars, launcher>>

vars == <<wvars, cvars, xvars>>

\* ------------------------------------------------------------ event kinds
EventKinds ==
    {"task_start", "task_complete", "subtask_start", "subtask_complete",
     "snapshot_start", "snapshot_complete", "restore_start", "restore_complete",
     "cleanup_start", "cleanup_complete", "log_message", "error_message"}

TimerIds == 1..MaxStarts

\* A request: the path, whether the body parses as a JSON object, and the
\* payload fields the handlers read.  num_ops_tag tells whether the key is
\* absent or carries an integer (num_ops); duration and task_index are
\* "num" when the key carries a number and "absent" otherwise.
MkReq(path, json, event, tag, n, duration, task_index, status) ==
    [path |-> path, json |-> json, event |-> event, num_ops_tag |-> tag,
     num_ops |-> n, duration |-> duration, task_index |-> task_index,
     status |-> status]

PlainReq(event) ==
    MkReq("/progress", TRUE, event, "absent", 0, "num", "num", "success")

Requests ==
    {MkReq("/other", TRUE, "subtask_complete", "absent", 0, "num", "num", "success"),
     MkReq("/progress", FALSE, "subtask_complete", "absent", 0, "num", "num", "success"),
     PlainReq("unknown")}
    \cup {PlainReq(e) : e \in EventKinds \ {"task_start", "task_complete",
                           "subtask_start", "subtask_complete", "restore_complete"}}
    \cup {MkReq("/progress", TRUE, "task_start", "absent", 0, "num", ti, "success") :
             ti \in {"num", "absent"}}
    \cup {MkReq("/progress", TRUE, "task_complete", "absent", 0, "num", "num", "success"),
          MkReq("/progress", TRUE, "task_complete", "absent", 0, "absent", "num", "success"),
          MkReq("/progress", TRUE, "task_complete", "absent", 0, "num", "absent", "success")}
    \cup {MkReq("/progress", TRUE, "subtask_start", "int", n, "num", "num", "success") :
             n \in (-1)..MaxOps}
    \cup {MkReq("/progress", TRUE, "subtask_start", "absent", 0, "num", "num", "success")}
    \cup {MkReq("/progress", TRUE, "subtask_complete", "absent", 0, d, "num", "success") :
             d \in {"num", "absent"}}
    \cup {MkReq("/progress", TRUE, "restore_complete", "absent", 0, "num", "num", st) :
             st \in {"success", "failed"}}

\* ------------------------------------------------------------ the monitor
NoSubtask == [arm |-> 0, num_ops |-> 0, timeout_ms |-> 0]

\* a threading.Timer: st is the position of its thread
\*   "none"    not created
\*   "waiting" in finished.wait(interval), remaining ms of the interval left
\*   "firing"  found finished unset after the wait, about to call the function
\*   "cancelled" woken by cancel() during the wait, ended without a call
\*   "done"    the function has returned
NoTimer == [st |-> "none", finished |-> FALSE, remaining |-> 0]

Max(a, b) == IF a >= b THEN a ELSE b

\* Timer.cancel(): sets the finished event of timer t (t = 0: nothing to
\* cancel); a thread still in its wait wakes up, finds the event set and ends
TimerCancel(tm, t) ==
    IF t = 0 THEN tm
    ELSE IF tm[t].st = "waiting"
    THEN [tm EXCEPT ![t] = [st |-> "cancelled", finished |-> TRUE, remaining |-> 0]]
    ELSE [tm EXCEPT ![t].finished = TRUE]

\* data.get('num_ops', 0)
GetNumOps(data) ==
    IF data.num_ops_tag = "absent" THEN 0 ELSE data.num_ops

\* start_subtask_timer with the timeout taken as num_ops milliseconds
start_subtask_timer_ms(data) ==
    LET t == ntimers + 1
        timeout_ms == GetNumOps(data)
    IN /\ ntimers < MaxStarts
       /\ ntimers' = t
       /\ timers' = [TimerCancel(timers, current_timer) EXCEPT
                        ![t] = [st |-> "waiting", finished |-> FALSE,
                                remaining |-> timeout_ms]]
       /\ current_subtask' = [arm |-> t, num_ops |-> GetNumOps(data),
                              timeout_ms |-> timeout_ms]
       /\ current_timer' = t
       /\ superseded_arms' = IF current_subtask.arm # 0
                             THEN superseded_arms \cup {current_subtask.arm}
                             ELSE superseded_arms
       /\ UNCHANGED <<callback_log, cancelled_arms>>

\* TimeoutMonitor.start_subtask_timer(subtask_data)
start_subtask_timer(data) ==
    LET t == ntimers + 1
        timeout_ms == GetNumOps(data) * MsPerOp
    IN /\ ntimers < MaxStarts
       /\ ntimers' = t
       /\ timers' = [TimerCancel(timers, current_timer) EXCEPT
                        ![t] = [st |-> "waiting", finished |-> FALSE,
                                remaining |-> timeout_ms]]
       /\ current_subtask' = [arm |-> t, num_ops |-> GetNumOps(data),
                              timeout_ms |-> timeout_ms]
       /\ current_timer' = t
       /\ superseded_arms' = IF current_subtask.arm # 0
                             THEN superseded_arms \cup {current_subtask.arm}
                             ELSE superseded_arms
       /\ UNCHANGED <<callback_log, cancelled_arms>>

\* cancel_subtask_timer that cancels the timer but keeps current_subtask
cancel_subtask_timer_keep ==
    /\ timers' = TimerCancel(timers, current_timer)
    /\ current_timer' = 0
    /\ cancelled_arms' = IF current_subtask.arm # 0
                         THEN cancelled_arms \cup {current_subtask.arm}
                         ELSE cancelled_arms
    /\ UNCHANGED <<current_subtask, ntimers, callback_log, superseded_arms>>

\* TimeoutMonitor.cancel_subtask_timer()
cancel_subtask_timer ==
    /\ timers' = TimerCancel(timers, current_timer)
    /\ current_timer' = 0
    /\ current_subtask' = NoSubtask
    /\ cancelled_arms' = IF current_subtask.arm # 0
                         THEN cancelled_arms \cup {current_subtask.arm}
                         ELSE cancelled_arms
    /\ UNCHANGED <<ntimers, callback_log, superseded_arms>>

MonitorUnchanged ==
    UNCHANGED <<current_timer, current_subtask, timers, ntimers, callback_log,
                cancelled_arms, superseded_arms>>

\* ------------------------------------------------------------ timer threads
\* time passes: every timer still waiting for its interval sees MsPerOp more
Tick ==
    /\ \E t \in TimerIds : timers[t].st = "waiting" /\ timers[t].remaining > 0
    /\ timers' = [t \in TimerIds |->
                    IF timers[t].st = "waiting"
                    THEN [timers[t] EXCEPT
                            !.remaining = Max(0, timers[t].remaining - MsPerOp)]
                    ELSE timers[t]]
    /\ UNCHANGED <<restore_expected, timeout_monitor, current_timer,
                   current_subtask, ntimers, callback_log, response,
                   cancelled_arms, superseded_arms, complete_pending>>
    /\ UNCHANGED <<cvars, xvars>>

\* Timer.run of timer t: the wait timed out and finished is not set
Expire(t) ==
    /\ timers[t].st = "waiting"
    /\ ~timers[t].finished
    /\ timers[t].remaining = 0
    /\ timers' = [timers EXCEPT ![t].st = "firing"]
    /\ UNCHANGED <<restore_expected, timeout_monitor, current_timer,
                   current_subtask, ntimers, callback_log, response,
                   cancelled_arms, superseded_arms, complete_pending>>
    /\ UNCHANGED <<cvars, xvars>>

\* _handle_timeout that calls the callback and leaves current_subtask set
_handle_timeout_noclear(t) ==
    /\ timers[t].st = "firing"
    /\ t \notin orphan_timers
    /\ Len(callback_log) < 2 * MaxStarts
    /\ timers' = [timers EXCEPT ![t].st = "done", ![t].finished = TRUE]
    /\ IF current_subtask.arm # 0
       THEN /\ callback_log' = Append(callback_log, current_subtask)
            /\ current_timer' = 0
            /\ UNCHANGED current_subtask
       ELSE UNCHANGED <<callback_log, current_subtask, current_timer>>
    /\ UNCHANGED <<restore_expected, timeout_monitor, ntimers, response,
                   cancelled_arms, superseded_arms, complete_pending>>
    /\ UNCHANGED <<cvars, xvars>>

\* TimeoutMonitor._handle_timeout, called on the thread of timer t
_handle_timeout(t) ==
    /\ timers[t].st = "firing"
    /\ t \notin orphan_timers
    /\ timers' = [timers EXCEPT ![t].st = "done", ![t].finished = TRUE]
    /\ IF current_subtask.arm # 0
       THEN /\ callback_log' = Append(callback_log, current_subtask)
            /\ current_subtask' = NoSubtask
            /\ current_timer' = 0
       ELSE UNCHANGED <<callback_log, current_subtask, current_timer>>
    /\ UNCHANGED <<restore_expected, timeout_monitor, ntimers, response,
                   cancelled_arms, superseded_arms, complete_pending>>
    /\ UNCHANGED <<cvars, xvars>>

\* ------------------------------------------------------- the HTTP handler
OkBody == "{\"status\": \"ok\"}"

\* the response of do_POST: send_response(status), the body written after a
\* 200, and whether the handler printed the missing-restore warning
Respond(req, status, warned) ==
    response' = [status |-> status,
                 body |-> IF status = 200 THEN OkBody ELSE "",
                 warned |-> warned]

\* ProgressHandler._handle_task_start: task_index + 1 raises on a missing index
_handle_task_start(data) ==
    /\ Respond(data, IF data.task_index = "absent" THEN 500 ELSE 200, FALSE)
    /\ UNCHANGED <<restore_expected, complete_pending>>
    /\ MonitorUnchanged

\* ProgressHandler._handle_task_complete: task_index + 1 and {duration:.2f}
\* raise on a missing value
_handle_task_complete(data) ==
    /\ Respond(data,
               IF data.task_index = "absent" \/ data.duration = "absent"
               THEN 500 ELSE 200, FALSE)
    /\ UNCHANGED <<restore_expected, complete_pending>>
    /\ MonitorUnchanged

\* ProgressHandler._handle_subtask_start
_handle_subtask_start(data) ==
    /\ restore_expected' = FALSE
    /\ complete_pending' = FALSE
    /\ IF ~timeout_monitor
       THEN /\ MonitorUnchanged
            /\ Respond(data, 200, restore_expected)
       ELSE IF GetNumOps(data) > 0
       THEN /\ start_subtask_timer(data)
            /\ Respond(data, 200, restore_expected)
       ELSE /\ MonitorUnchanged
            /\ Respond(data, 200, restore_expected)

\* ProgressHandler._handle_subtask_complete
_handle_subtask_complete(data) ==
    /\ complete_pending' = TRUE
    /\ IF data.duration = "absent"
       THEN \* {duration:.2f} raises TypeError on None
            /\ UNCHANGED restore_expected
            /\ MonitorUnchanged
            /\ Respond(data, 500, FALSE)
       ELSE /\ IF timeout_monitor
               THEN cancel_subtask_timer
               ELSE MonitorUnchanged
            /\ restore_expected' = TRUE
            /\ Respond(data, 200, FALSE)

\* ProgressHandler._handle_restore_complete
_handle_restore_complete(data) ==
    /\ IF data.status # "success"
       THEN UNCHANGED <<restore_expected, complete_pending>>
       ELSE /\ restore_expected' = FALSE
            /\ complete_pending' = FALSE
    /\ MonitorUnchanged
    /\ Respond(data, 200, FALSE)

\* the handlers that only print: snapshot_*, restore_start, cleanup_*,
\* log_message, error_message; an unknown event kind matches no branch
_handle_print_only(data) ==
    /\ UNCHANGED <<restore_expected, complete_pending>>
    /\ MonitorUnchanged
    /\ Respond(data, 200, FALSE)

\* ProgressHandler.do_POST
do_POST(req) ==
    /\ UNCHANGED timeout_monitor
    /\ UNCHANGED <<cvars, xvars>>
    /\ IF req.path # "/progress"
       THEN /\ UNCHANGED <<restore_expected, complete_pending>>
            /\ MonitorUnchanged
            /\ Respond(req, 404, FALSE)
       ELSE IF ~req.json
       THEN \* json.loads raises, or the body is no JSON object
            /\ UNCHANGED <<restore_expected, complete_pending>>
            /\ MonitorUnchanged
            /\ Respond(req, 500, FALSE)
       ELSE CASE req.event = "task_start" -> _handle_task_start(req)
              [] req.event = "task_complete" -> _handle_task_complete(req)
              [] req.event = "subtask_start" -> _handle_subtask_start(req)
              [] req.event = "subtask_complete" -> _handle_subtask_complete(req)
              [] req.event = "restore_complete" -> _handle_restore_complete(req)
              [] OTHER -> _handle_print_only(req)

\* ------------------------------------------------- ProgressServer objects
\* The ProgressServer objects of the process.  server_pc[s] is
\*   "absent"   start() not called yet
\*   "running"  started, stop() not called yet
\*   "shut"     stop() has called timeout_monitor.shutdown()
\*   "cleared"  stop() is past the timeout_monitor block
\*   "stopped"  stop() has returned: the HTTP server thread has ended
Servers == {1, 2}

\* ProgressServer.start() with a timeout_callback: the class variable gets a
\* new TimeoutMonitor; the one it held keeps its fields and running timers
\* but is no longer reached by the handlers
ProgressServer_start(s) ==
    /\ server_pc[s] = "absent"
    /\ server_pc' = [server_pc EXCEPT ![s] = "running"]
    /\ timeout_monitor' = TRUE
    /\ orphan_subtask' = current_subtask
    /\ orphan_timers' = 1..ntimers
    /\ current_subtask' = NoSubtask
    /\ current_timer' = 0
    /\ UNCHANGED <<restore_expected, timers, ntimers, callback_log, response,
                   cancelled_arms, superseded_arms, complete_pending>>
    /\ UNCHANGED <<cvars, lvars, launcher>>

\* _handle_timeout on the thread of a timer t of the replaced monitor
_handle_timeout_orphan(t) ==
    /\ timers[t].st = "firing"
    /\ t \in orphan_timers
    /\ timers' = [timers EXCEPT ![t].st = "done", ![t].finished = TRUE]
    /\ IF orphan_subtask.arm # 0
       THEN /\ callback_log' = Append(callback_log, orphan_subtask)
            /\ orphan_subtask' = NoSubtask
       ELSE UNCHANGED <<callback_log, orphan_subtask>>
    /\ UNCHANGED <<restore_expected, timeout_monitor, current_timer,
                   current_subtask, ntimers, response, cancelled_arms,
                   superseded_arms, complete_pending>>
    /\ UNCHANGED <<server_pc, orphan_timers>>
    /\ UNCHANGED <<cvars, lvars, launcher>>

\* the HTTP server thread of s handles one request; serve_forever runs
\* until stop() has called server.shutdown()
serve(s, req) ==
    /\ server_pc[s] \in {"running", "shut", "cleared"}
    /\ do_POST(req)

\* TimeoutMonitor.shutdown()
shutdown ==
    /\ timers' = TimerCancel(timers, current_timer)
    /\ current_timer' = 0
    /\ current_subtask' = NoSubtask

\* ProgressServer.stop(), lines 235-236: the monitor, if set, is shut down
stop_shutdown(s) ==
    /\ server_pc[s] = "running"
    /\ IF timeout_monitor
       THEN /\ shutdown
            /\ server_pc' = [server_pc EXCEPT ![s] = "shut"]
       ELSE /\ UNCHANGED <<timers, current_timer, current_subtask>>
            /\ server_pc' = [server_pc EXCEPT ![s] = "cleared"]
    /\ UNCHANGED <<restore_expected, timeout_monitor, ntimers, callback_log,
                   response, cancelled_arms, superseded_arms, complete_pending>>
    /\ UNCHANGED <<orphan_subtask, orphan_timers>>
    /\ UNCHANGED <<cvars, lvars, launcher>>

\* ProgressServer.stop(), line 237: ProgressHandler.timeout_monitor = None
stop_clear(s) ==
    /\ server_pc[s] = "shut"
    /\ server_pc' = [server_pc EXCEPT ![s] = "cleared"]
    /\ timeout_monitor' = FALSE
    /\ UNCHANGED <<restore_expected, current_timer, current_subtask, timers,
                   ntimers, callback_log, response, cancelled_arms,
                   superseded_arms, complete_pending>>
    /\ UNCHANGED <<orphan_subtask, orphan_timers>>
    /\ UNCHANGED <<cvars, lvars, launcher>>

\* ProgressServer.stop(), lines 239-244: server.shutdown(), server_close()
\* and the join of the server thread, after which stop() returns
stop_server(s) ==
    /\ server_pc[s] = "cleared"
    /\ server_pc' = [server_pc EXCEPT ![s] = "stopped"]
    /\ UNCHANGED wvars
    /\ UNCHANGED <<orphan_subtask, orphan_timers>>
    /\ UNCHANGED <<cvars, lvars, launcher>>

\* ------------------------------------------- the monitor, statement by statement
\* The methods of TimeoutMonitor taken one statement at a time, each inside
\* its `with self.lock`.  Thread ids: a timer thread has the id of its timer,
\* the HTTP server thread is ServerThread.  srv.pc is the statement the
\* server thread is about to run ("idle": outside the monitor); a timer
\* thread inside _handle_timeout has st "locked" (lock taken) or "called"
\* (callback called and current_subtask cleared).
ServerThread == MaxStarts + 1

\* a `with` entry that does not take the lock
Acquire_nolock(th) == UNCHANGED lock

\* with self.lock: entry, possible only while no thread holds the lock
Acquire(th) == lock = 0 /\ lock' = th

\* with self.lock: exit
Release == lock' = 0

\* what no TimeoutMonitor statement touches
OutsideMonitor ==
    /\ UNCHANGED <<restore_expected, timeout_monitor, response,
                   cancelled_arms, superseded_arms, complete_pending>>
    /\ UNCHANGED <<cvars, svars, launcher>>

\* start_subtask_timer, line 38: the server thread enters with num_ops = n
start_enter(n) ==
    /\ srv.pc = "idle"
    /\ ntimers < MaxStarts
    /\ Acquire(ServerThread)
    /\ srv' = [pc |-> "start_cancel", num_ops |-> n]
    /\ UNCHANGED <<current_timer, current_subtask, timers, ntimers,
                   callback_log>>
    /\ OutsideMonitor

\* start_subtask_timer, lines 40-41: cancel the existing timer
start_cancel ==
    /\ srv.pc = "start_cancel"
    /\ timers' = TimerCancel(timers, current_timer)
    /\ srv' = [srv EXCEPT !.pc = "start_store"]
    /\ UNCHANGED <<lock, current_timer, current_subtask, ntimers,
                   callback_log>>
    /\ OutsideMonitor

\* start_subtask_timer, lines 44-50: store current_subtask
start_store ==
    /\ srv.pc = "start_store"
    /\ current_subtask' = [arm |-> ntimers + 1, num_ops |-> srv.num_ops,
                           timeout_ms |-> srv.num_ops * MsPerOp]
    /\ srv' = [srv EXCEPT !.pc = "start_timer"]
    /\ UNCHANGED <<lock, current_timer, timers, ntimers, callback_log>>
    /\ OutsideMonitor

\* start_subtask_timer, lines 53-58: create and start the timer, leave
start_timer ==
    /\ srv.pc = "start_timer"
    /\ ntimers' = ntimers + 1
    /\ timers' = [timers EXCEPT
                     ![ntimers + 1] = [st |-> "waiting", finished |-> FALSE,
                                       remaining |-> srv.num_ops * MsPerOp]]
    /\ current_timer' = ntimers + 1
    /\ Release
    /\ srv' = [pc |-> "idle", num_ops |-> 0]
    /\ UNCHANGED <<current_subtask, callback_log>>
    /\ OutsideMonitor

\* cancel_subtask_timer, line 62: the server thread enters
cancel_enter ==
    /\ srv.pc = "idle"
    /\ Acquire(ServerThread)
    /\ srv' = [srv EXCEPT !.pc = "cancel_timer"]
    /\ UNCHANGED <<current_timer, current_subtask, timers, ntimers,
                   callback_log>>
    /\ OutsideMonitor

\* cancel_subtask_timer, lines 63-65: cancel and forget the timer
cancel_timer ==
    /\ srv.pc = "cancel_timer"
    /\ timers' = TimerCancel(timers, current_timer)
    /\ current_timer' = 0
    /\ srv' = [srv EXCEPT !.pc = "cancel_subtask"]
    /\ UNCHANGED <<lock, current_subtask, ntimers, callback_log>>
    /\ OutsideMonitor

\* cancel_subtask_timer, line 66: forget the subtask, leave
cancel_subtask ==
    /\ srv.pc = "cancel_subtask"
    /\ current_subtask' = NoSubtask
    /\ Release
    /\ srv' = [srv EXCEPT !.pc = "idle"]
    /\ UNCHANGED <<current_timer, timers, ntimers, callback_log>>
    /\ OutsideMonitor

\* _handle_timeout, line 70: the thread of timer t enters
timeout_enter(t) ==
    /\ timers[t].st = "firing"
    /\ Acquire(t)
    /\ timers' = [timers EXCEPT ![t].st = "locked"]
    /\ UNCHANGED <<srv, current_timer, current_subtask, ntimers, callback_log>>
    /\ OutsideMonitor

\* _handle_timeout, lines 71-80: with a subtask recorded, call the callback
\* and forget the subtask; with none, leave
timeout_call(t) ==
    /\ timers[t].st = "locked"
    /\ IF current_subtask.arm # 0
       THEN /\ callback_log' = Append(callback_log, current_subtask)
            /\ current_subtask' = NoSubtask
            /\ timers' = [timers EXCEPT ![t].st = "called"]
            /\ UNCHANGED lock
       ELSE /\ timers' = [timers EXCEPT ![t].st = "done", ![t].finished = TRUE]
            /\ Release
            /\ UNCHANGED <<callback_log, current_subtask>>
    /\ UNCHANGED <<srv, current_timer, ntimers>>
    /\ OutsideMonitor

\* _handle_timeout, line 81: forget the timer, leave
timeout_clear(t) ==
    /\ timers[t].st = "called"
    /\ current_timer' = 0
    /\ timers' = [timers EXCEPT ![t].st = "done", ![t].finished = TRUE]
    /\ Release
    /\ UNCHANGED <<srv, current_subtask, ntimers, callback_log>>
    /\ OutsideMonitor

\* ===================================================================
\* The workload compiler
\* ===================================================================
\* ---------------------------------------------------------------- bounds
\* longest task list of a workload
MaxTasks == 2
\* the ops value of a task
MaxTaskOps == 2
\* number of states of the modelled random generator
RngMod == 5

\* length of the long workload
LongLen == 101

\* ------------------------------------------------------ program constants
SAMPLE_SIZE == 100000

STRUCTURAL_TASKS ==
    {"load_graph", "add_vertex", "remove_vertex", "add_edge", "remove_edge",
     "get_nbrs"}

PROPERTY_TASKS ==
    {"load_graph", "update_vertex_property", "update_edge_property",
     "get_vertex_by_property", "get_edge_by_property"}

\* the task names a workload file may carry: the defined ones and a stray one
TaskNames == STRUCTURAL_TASKS \cup PROPERTY_TASKS \cup {"export_graph"}

\* the values of workload_config['mode']: "absent" is a config without the key
Modes == {"absent", "structural", "property", "analytics"}

\* ---------------------------------------------------- the random generator
\* The `random` module is a deterministic generator: every draw is a
\* function of its state and moves the state on.  Results of drawing
\* operators are records [val, rng]: the value and the state after the draw.
RngNext(r) == (r * 3 + 1) % RngMod

\* random.seed(seed)
RngSeed(seed) == seed % RngMod

\* the index below n that the generator gives in state r2
Drawn(r2, n) == [val |-> r2 % n, rng |-> r2]

\* one draw of an index below n (n > 0)
RandBelow(r, n) == Drawn(RngNext(r), n)

\* seq[i] for the drawn index d
Pick(d, seq) == [val |-> seq[d.val + 1], rng |-> d.rng]

\* random.choice(seq) for a non-empty seq
RandChoice(r, seq) == Pick(RandBelow(r, Len(seq)), seq)

\* the result list with x put in front
Cons(x, rest) == [val |-> <<x>> \o rest.val, rng |-> rest.rng]

\* random.sample(pool, k), the pool-based selection CPython uses for small
\* populations: k draws, each taken element is replaced by the last one
RECURSIVE RandSample(_, _, _)
RECURSIVE SampleStep(_, _, _)
SampleStep(d, pool, k) ==
    Cons(pool[d.val + 1],
         RandSample(d.rng,
                    SubSeq([pool EXCEPT ![d.val + 1] = pool[Len(pool)]],
                           1, Len(pool) - 1),
                    k - 1))

RandSample(r, pool, k) ==
    IF k = 0 THEN [val |-> <<>>, rng |-> r]
    ELSE SampleStep(RandBelow(r, Len(pool)), pool, k)

\* ------------------------------------------------------------- datasets
\* A dataset directory: nodes.csv rows (id and the non-NaN property cells
\* in column order) and edges.csv rows; has_node_id / has_src_dst tell
\* whether the structural columns exist; path = FALSE is dataset_path=None.
Prop(k, v) == [key |-> k, value |-> v]

DsPlain ==
    [path |-> TRUE, has_node_id |-> TRUE, node_keys |-> <<>>,
     nodes |-> <<[id |-> 1, props |-> <<>>], [id |-> 2, props |-> <<>>],
                 [id |-> 3, props |-> <<>>]>>,
     has_src_dst |-> TRUE, edge_keys |-> <<>>,
     edges |-> <<[src |-> 1, dst |-> 2, props |-> <<>>],
                 [src |-> 2, dst |-> 3, props |-> <<>>]>>]

DsProps ==
    [path |-> TRUE, has_node_id |-> TRUE, node_keys |-> <<"age", "name">>,
     nodes |-> <<[id |-> 1, props |-> <<Prop("age", "30"), Prop("name", "a")>>],
                 [id |-> 2, props |-> <<>>],
                 [id |-> 2, props |-> <<Prop("name", "b")>>],
                 [id |-> 3, props |-> <<>>]>>,
     has_src_dst |-> TRUE, edge_keys |-> <<"weight">>,
     edges |-> <<[src |-> 1, dst |-> 2, props |-> <<Prop("weight", "0.5")>>],
                 [src |-> 1, dst |-> 2, props |-> <<>>],
                 [src |-> 2, dst |-> 1, props |-> <<>>]>>]

DsNoIdColumn ==
    [path |-> TRUE, has_node_id |-> FALSE, node_keys |-> <<"age">>,
     nodes |-> <<[id |-> 0, props |-> <<Prop("age", "30")>>]>>,
     has_src_dst |-> TRUE, edge_keys |-> <<>>,
     edges |-> <<[src |-> 1, dst |-> 2, props |-> <<>>]>>]

DsNone ==
    [path |-> FALSE, has_node_id |-> FALSE, node_keys |-> <<>>, nodes |-> <<>>,
     has_src_dst |-> FALSE, edge_keys |-> <<>>, edges |-> <<>>]

Datasets == {DsPlain, DsProps, DsNoIdColumn, DsNone}

\* a cell that is missing or not a number: pandas reads it as NaN
NaN == -1

\* an edges.csv whose second row has no src
DsBadEdge ==
    [path |-> TRUE, has_node_id |-> TRUE, node_keys |-> <<>>,
     nodes |-> <<[id |-> 1, props |-> <<>>], [id |-> 2, props |-> <<>>],
                 [id |-> 3, props |-> <<>>]>>,
     has_src_dst |-> TRUE, edge_keys |-> <<>>,
     edges |-> <<[src |-> 1, dst |-> 2, props |-> <<>>],
                 [src |-> NaN, dst |-> 3, props |-> <<>>],
                 [src |-> 2, dst |-> 3, props |-> <<>>]>>]

\* a nodes.csv whose second row has no node_id
DsBadNode ==
    [path |-> TRUE, has_node_id |-> TRUE, node_keys |-> <<>>,
     nodes |-> <<[id |-> 1, props |-> <<>>], [id |-> NaN, props |-> <<>>],
                 [id |-> 3, props |-> <<>>]>>,
     has_src_dst |-> TRUE, edge_keys |-> <<>>,
     edges |-> <<[src |-> 1, dst |-> 3, props |-> <<>>]>>]

ScanDatasets == Datasets \cup {DsBadEdge, DsBadNode}

\* ----------------------------------------------------------- the instance
\* WorkloadCompiler.__init__
NewCompiler ==
    [SAMPLE_SIZE |-> SAMPLE_SIZE,
     sampled_nodes |-> <<>>, sampled_edges |-> <<>>, max_dataset_id |-> 0,
     node_property_keys |-> <<>>, edge_property_keys |-> <<>>,
     sampled_node_props |-> <<>>, sampled_edge_props |-> <<>>]

\* dict[key] = value on a dict kept as a sequence of [key, value] entries in
\* insertion order
DictPut(dict, k, v) ==
    IF \E i \in 1..Len(dict) : dict[i].key = k
    THEN [i \in 1..Len(dict) |->
             IF dict[i].key = k THEN Prop(k, v) ELSE dict[i]]
    ELSE Append(dict, Prop(k, v))

\* dict.get(key, {})
DictGet(dict, k) ==
    IF \E i \in 1..Len(dict) : dict[i].key = k
    THEN (CHOOSE e \in {dict[i] : i \in 1..Len(dict)} : e.key = k).value
    ELSE <<>>

SeqMax(seq) == CHOOSE m \in {seq[i] : i \in 1..Len(seq)} :
                   \A i \in 1..Len(seq) : seq[i] <= m

\* DataFrame.sample(n=self.SAMPLE_SIZE, random_state=d.val): a selection of
\* k rows without replacement fixed by the drawn random_state
SampledRows(d, rows, k) ==
    [val |-> RandSample(RngSeed(d.val), rows, k).val, rng |-> d.rng]

\* a scan that keeps every row, whatever their number
SampleRows_all(c, r, rows) == [val |-> rows, rng |-> r]

\* the rows the scan keeps: all of them up to self.SAMPLE_SIZE, else a
\* sample whose random_state is random.randint(0, 1000000)
SampleRows(c, r, rows) ==
    IF Len(rows) > c.SAMPLE_SIZE
    THEN SampledRows(RandBelow(r, 1000001), rows, c.SAMPLE_SIZE)
    ELSE [val |-> rows, rng |-> r]

\* the node_id cells max() looks at: it skips NaN
NumericIds(rows) ==
    SelectSeq([i \in 1..Len(rows) |-> rows[i].id], LAMBDA x : x # NaN)

\* the text of a property value: f"updated_{id}_{key}", f"val_{id}", or the
\* str() of a dataset cell
Updated(seed_id, key) == [fmt |-> "updated", id |-> seed_id, key |-> key, text |-> ""]
Val(seed_id) == [fmt |-> "val", id |-> seed_id, key |-> "", text |-> ""]
Str(cell) == [fmt |-> "str", id |-> 0, key |-> "", text |-> cell]

\* {k: str(row[k]) for k in keys if pd.notna(row[k])}
StrCells(props) == [i \in 1..Len(props) |-> Prop(props[i].key, Str(props[i].value))]

\* the loops that store the property cells of the sampled rows
RECURSIVE StoreNodeProps(_, _)
StoreNodeProps(dict, rows) ==
    IF rows = <<>> THEN dict
    ELSE StoreNodeProps(
            IF rows[1].props # <<>>
            THEN DictPut(dict, rows[1].id, StrCells(rows[1].props)) ELSE dict,
            Tail(rows))

RECURSIVE StoreEdgeProps(_, _)
StoreEdgeProps(dict, rows) ==
    IF rows = <<>> THEN dict
    ELSE StoreEdgeProps(
            IF rows[1].props # <<>>
            THEN DictPut(dict, <<rows[1].src, rows[1].dst>>,
                         StrCells(rows[1].props))
            ELSE dict,
            Tail(rows))

\* _scan_dataset, nodes.csv read once the rows ns are sampled: astype(int)
\* raises on a NaN id, else the ids and the property cells are stored
NodesScanned(c, ns, ds) ==
    IF \E i \in 1..Len(ns.val) : ns.val[i].id = NaN
    THEN [compiler |->
             [c EXCEPT !.node_property_keys = ds.node_keys,
                       !.max_dataset_id = SeqMax(NumericIds(ds.nodes))],
          rng |-> ns.rng,
          raised |-> "ValueError: NaN to integer"]
    ELSE [compiler |->
             [c EXCEPT
                !.node_property_keys = ds.node_keys,
                !.max_dataset_id = SeqMax(NumericIds(ds.nodes)),
                !.sampled_nodes = [i \in 1..Len(ns.val) |-> ns.val[i].id],
                !.sampled_node_props =
                    IF ds.node_keys # <<>>
                    THEN StoreNodeProps(c.sampled_node_props, ns.val)
                    ELSE c.sampled_node_props],
          rng |-> ns.rng,
          raised |-> ""]

\* _scan_dataset, edges.csv read once the rows es are sampled: int() raises
\* on a NaN src or dst, else the pairs and the property cells are stored
EdgesScanned(c, es, ds) ==
    IF \E i \in 1..Len(es.val) : es.val[i].src = NaN \/ es.val[i].dst = NaN
    THEN [compiler |-> [c EXCEPT !.edge_property_keys = ds.edge_keys],
          rng |-> es.rng,
          raised |-> "ValueError: NaN to integer"]
    ELSE [compiler |->
             [c EXCEPT
                !.edge_property_keys = ds.edge_keys,
                !.sampled_edges =
                    [i \in 1..Len(es.val) |-> <<es.val[i].src, es.val[i].dst>>],
                !.sampled_edge_props =
                    IF ds.edge_keys # <<>>
                    THEN StoreEdgeProps(c.sampled_edge_props, es.val)
                    ELSE c.sampled_edge_props],
          rng |-> es.rng,
          raised |-> ""]

\* _scan_dataset, second half: edges.csv after the node scan n
ScanEdges(n, ds) ==
    IF n.raised # "" THEN n
    ELSE IF ~ds.has_src_dst
    THEN [compiler |-> [n.compiler EXCEPT !.edge_property_keys = ds.edge_keys],
          rng |-> n.rng, raised |-> "KeyError: src"]
    ELSE EdgesScanned(n.compiler, SampleRows(n.compiler, n.rng, ds.edges), ds)

\* WorkloadCompiler._scan_dataset: the instance after the scan, the generator
\* state, and the exception that ended it ("" when it returned)
_scan_dataset(c, r, ds) ==
    IF ~ds.has_node_id
    THEN [compiler |-> [c EXCEPT !.node_property_keys = ds.node_keys],
          rng |-> r, raised |-> "KeyError: node_id"]
    ELSE IF NumericIds(ds.nodes) = <<>>
    THEN \* int() of the NaN that max() of a column without a number gives
         [compiler |-> [c EXCEPT !.node_property_keys = ds.node_keys],
          rng |-> r, raised |-> "ValueError: nan"]
    ELSE ScanEdges(NodesScanned(c, SampleRows(c, r, ds.nodes), ds), ds)

\* ------------------------------------------------------------ task specs
\* one entry of workload_config['tasks']; direction "" is a spec without it
MkTask(name, ops, has_batch_sizes, batch_sizes, direction) ==
    [name |-> name, ops |-> ops, has_batch_sizes |-> has_batch_sizes,
     batch_sizes |-> batch_sizes, direction |-> direction]

TaskSpecs ==
    {MkTask(n, MaxTaskOps, TRUE, <<1, MaxTaskOps>>, "") : n \in TaskNames}
    \cup {MkTask("add_vertex", MaxTaskOps, FALSE, <<>>, ""),
          MkTask("get_nbrs", MaxTaskOps, FALSE, <<>>, "IN"),
          MkTask("remove_vertex", MaxTaskOps + 1, FALSE, <<>>, ""),
          MkTask("remove_edge", MaxTaskOps + 1, FALSE, <<>>, "")}

RECURSIVE SeqsUpTo(_, _)
SeqsUpTo(S, n) ==
    IF n = 0 THEN {<<>>}
    ELSE {<<>>} \cup {<<x>> \o q : x \in S, q \in SeqsUpTo(S, n - 1)}

\* a workload of LongLen tasks: its last index needs three digits
LongTaskList ==
    [i \in 1..LongLen |-> MkTask("add_vertex", MaxTaskOps, FALSE, <<>>, "")]

TaskLists == SeqsUpTo(TaskSpecs, MaxTasks) \cup {LongTaskList}

\* ------------------------------------------------------ compiling one task
\* list(set(seq)) for small non-negative integers: ascending, no repeats
RECURSIVE SortedList(_)
SortedList(S) ==
    IF S = {} THEN <<>>
    ELSE <<CHOOSE x \in S : \A y \in S : x <= y>>
         \o SortedList(S \ {CHOOSE x \in S : \A y \in S : x <= y})

UniqueList(seq) == SortedList({seq[i] : i \in 1..Len(seq)})

\* WorkloadCompiler._sample_existing_node
_sample_existing_node(c, r) ==
    IF c.sampled_nodes = <<>> THEN [val |-> 1, rng |-> r]
    ELSE RandChoice(r, c.sampled_nodes)

\* WorkloadCompiler._sample_existing_edge
_sample_existing_edge(c, r) ==
    IF c.sampled_edges = <<>> THEN [val |-> <<1, 2>>, rng |-> r]
    ELSE RandChoice(r, c.sampled_edges)

\* WorkloadCompiler._generate_new_values
_generate_new_values(prop_keys, seed_id) ==
    IF prop_keys = <<>> THEN <<Prop("_bench_prop", Val(seed_id))>>
    ELSE [i \in 1..Len(prop_keys) |->
             Prop(prop_keys[i], Updated(seed_id, prop_keys[i]))]

\* {"key": key, "value": existing_props[key]} for the chosen entry d
ExistingKv(d) == [val |-> Prop(d.val.key, d.val.value), rng |-> d.rng]

\* a fallback that carries f"val_{seed_id}" for a known key
FallbackKv_val(d, seed_id) ==
    [val |-> Prop(d.val, Val(seed_id)), rng |-> d.rng]

\* {"key": key, "value": f"updated_{seed_id}_{key}"} for the chosen key d
FallbackKv(d, seed_id) ==
    [val |-> Prop(d.val, Updated(seed_id, d.val)), rng |-> d.rng]

\* WorkloadCompiler._pick_existing_kv
_pick_existing_kv(r, existing_props, prop_keys, seed_id) ==
    IF existing_props # <<>> THEN ExistingKv(RandChoice(r, existing_props))
    ELSE IF prop_keys # <<>> THEN FallbackKv(RandChoice(r, prop_keys), seed_id)
    ELSE [val |-> Prop("_bench_prop", Val(seed_id)), rng |-> r]

\* WorkloadCompiler._compile_add_vertex
_compile_add_vertex(c, r, ops) ==
    [val |-> [task_type |-> "ADD_VERTEX", ops_count |-> ops,
              parameters |-> [count |-> ops]],
     rng |-> r]

\* if ops > available: ops = available
Clamp(ops, available) == IF ops > available THEN available ELSE ops

\* the descriptor _compile_remove_vertex returns for the sampled ids
RemoveVertexResult(ids, ops) ==
    [val |-> [task_type |-> "REMOVE_VERTEX", ops_count |-> ops,
              parameters |-> [ids |-> ids.val, detach |-> TRUE]],
     rng |-> ids.rng]

\* _compile_remove_vertex from unique_nodes on
RemoveVertexFrom(r, unique_nodes, ops) ==
    RemoveVertexResult(
        RandSample(r, unique_nodes, Clamp(ops, Len(unique_nodes))),
        Clamp(ops, Len(unique_nodes)))

\* WorkloadCompiler._compile_remove_vertex
_compile_remove_vertex(c, r, ops) ==
    RemoveVertexFrom(r, UniqueList(c.sampled_nodes), ops)

\* the loop of _compile_add_edge: k pairs of sampled nodes
RECURSIVE AddEdgePairs(_, _, _)
RECURSIVE AddEdgeDst(_, _, _)
RECURSIVE AddEdgeRest(_, _, _, _)
AddEdgeRest(c, src, d, k) ==
    Cons([src |-> src, dst |-> d.val], AddEdgePairs(c, d.rng, k - 1))

AddEdgeDst(c, s, k) ==
    AddEdgeRest(c, s.val, _sample_existing_node(c, s.rng), k)

AddEdgePairs(c, r, k) ==
    IF k <= 0 THEN [val |-> <<>>, rng |-> r]
    ELSE AddEdgeDst(c, _sample_existing_node(c, r), k)

\* the descriptor _compile_add_edge returns for the pairs
AddEdgeResult(pairs, ops) ==
    [val |-> [task_type |-> "ADD_EDGE", ops_count |-> ops,
              parameters |-> [label |-> "MyEdge", pairs |-> pairs.val]],
     rng |-> pairs.rng]

\* WorkloadCompiler._compile_add_edge
_compile_add_edge(c, r, ops) == AddEdgeResult(AddEdgePairs(c, r, ops), ops)

\* the descriptor _compile_remove_edge returns for the sampled edges
RemoveEdgeResult(sampled, ops) ==
    [val |-> [task_type |-> "REMOVE_EDGE", ops_count |-> ops,
              parameters |->
                  [label |-> "MyEdge",
                   pairs |-> [i \in 1..Len(sampled.val) |->
                                 [src |-> sampled.val[i][1],
                                  dst |-> sampled.val[i][2]]]]],
     rng |-> sampled.rng]

\* WorkloadCompiler._compile_remove_edge
\* a remove_edge compiler that reports the requested ops, not the clamped
_compile_remove_edge_requested(c, r, ops) ==
    RemoveEdgeResult(
        RandSample(r, c.sampled_edges, Clamp(ops, Len(c.sampled_edges))),
        ops)

\* WorkloadCompiler._compile_remove_edge
_compile_remove_edge(c, r, ops) ==
    RemoveEdgeResult(
        RandSample(r, c.sampled_edges, Clamp(ops, Len(c.sampled_edges))),
        Clamp(ops, Len(c.sampled_edges)))

\* one pass of the loop of _compile_property_task for the sampled edge e
EdgeItem(c, e, is_write) ==
    IF is_write
    THEN [val |-> [src |-> e.val[1], dst |-> e.val[2],
                   properties |->
                       _generate_new_values(c.edge_property_keys, e.val[1])],
          rng |-> e.rng]
    ELSE _pick_existing_kv(e.rng, DictGet(c.sampled_edge_props, e.val),
                           c.edge_property_keys, e.val[1])

\* one pass of the loop of _compile_property_task for the sampled node v
NodeItem(c, v, is_write) ==
    IF is_write
    THEN [val |-> [id |-> v.val,
                   properties |->
                       _generate_new_values(c.node_property_keys, v.val)],
          rng |-> v.rng]
    ELSE _pick_existing_kv(v.rng, DictGet(c.sampled_node_props, v.val),
                           c.node_property_keys, v.val)

PropertyItem(c, r, is_edge, is_write) ==
    IF is_edge THEN EdgeItem(c, _sample_existing_edge(c, r), is_write)
    ELSE NodeItem(c, _sample_existing_node(c, r), is_write)

\* the loop of _compile_property_task: k items
RECURSIVE PropertyItems(_, _, _, _, _)
RECURSIVE PropertyItemsRest(_, _, _, _, _)
PropertyItemsRest(c, one, k, is_edge, is_write) ==
    Cons(one.val, PropertyItems(c, one.rng, k - 1, is_edge, is_write))

PropertyItems(c, r, k, is_edge, is_write) ==
    IF k <= 0 THEN [val |-> <<>>, rng |-> r]
    ELSE PropertyItemsRest(c, PropertyItem(c, r, is_edge, is_write), k,
                           is_edge, is_write)

\* the descriptor _compile_property_task returns for the items
PropertyResult(items, ops, is_edge, is_write) ==
    [val |->
        [task_type |->
            IF is_write
            THEN (IF is_edge THEN "UPDATE_EDGE_PROPERTY"
                             ELSE "UPDATE_VERTEX_PROPERTY")
            ELSE (IF is_edge THEN "GET_EDGE_BY_PROPERTY"
                             ELSE "GET_VERTEX_BY_PROPERTY"),
         ops_count |-> ops,
         parameters |->
            IF is_write
            THEN (IF is_edge THEN [updates |-> items.val, label |-> "MyEdge"]
                             ELSE [updates |-> items.val])
            ELSE (IF is_edge THEN [queries |-> items.val, label |-> "MyEdge"]
                             ELSE [queries |-> items.val])],
     rng |-> items.rng]

\* WorkloadCompiler._compile_property_task
_compile_property_task(c, r, ops, is_edge, is_write) ==
    PropertyResult(PropertyItems(c, r, ops, is_edge, is_write), ops,
                   is_edge, is_write)

\* the list comprehension of _compile_get_nbrs
RECURSIVE NbrIds(_, _, _)
RECURSIVE NbrIdsRest(_, _, _)
NbrIdsRest(c, v, k) == Cons(v.val, NbrIds(c, v.rng, k - 1))

NbrIds(c, r, k) ==
    IF k <= 0 THEN [val |-> <<>>, rng |-> r]
    ELSE NbrIdsRest(c, _sample_existing_node(c, r), k)

\* the descriptor _compile_get_nbrs returns for the ids
GetNbrsResult(ids, ops, direction) ==
    [val |-> [task_type |-> "GET_NBRS", ops_count |-> ops,
              parameters |-> [direction |-> direction, ids |-> ids.val]],
     rng |-> ids.rng]

\* WorkloadCompiler._compile_get_nbrs
_compile_get_nbrs(c, r, ops, direction) ==
    GetNbrsResult(NbrIds(c, r, ops), ops, direction)

\* task_name.upper()
Upper(name) ==
    CASE name = "load_graph" -> "LOAD_GRAPH"
      [] name = "export_graph" -> "EXPORT_GRAPH"
      [] OTHER -> name

\* the task names _compile_task has a branch for
CompiledNames ==
    {"add_vertex", "remove_vertex", "add_edge", "remove_edge",
     "update_vertex_property", "get_vertex_by_property",
     "update_edge_property", "get_edge_by_property", "get_nbrs"}

\* the if/elif chain of _compile_task
CompileByName(c, r, task) ==
    CASE task.name = "add_vertex" -> _compile_add_vertex(c, r, task.ops)
      [] task.name = "remove_vertex" -> _compile_remove_vertex(c, r, task.ops)
      [] task.name = "add_edge" -> _compile_add_edge(c, r, task.ops)
      [] task.name = "remove_edge" -> _compile_remove_edge(c, r, task.ops)
      [] task.name \in {"update_vertex_property", "get_vertex_by_property"} ->
           _compile_property_task(c, r, task.ops, FALSE,
                                  task.name = "update_vertex_property")
      [] task.name \in {"update_edge_property", "get_edge_by_property"} ->
           _compile_property_task(c, r, task.ops, TRUE,
                                  task.name = "update_edge_property")
      [] task.name = "get_nbrs" ->
           _compile_get_nbrs(c, r, task.ops,
                             IF task.direction = "" THEN "OUT"
                             ELSE task.direction)

\* if batch_sizes is not None: result['batch_sizes'] = batch_sizes
WithBatchSizes(res, task) ==
    IF task.has_batch_sizes
    THEN [val |-> [task_type |-> res.val.task_type,
                   ops_count |-> res.val.ops_count,
                   parameters |-> res.val.parameters,
                   batch_sizes |-> task.batch_sizes],
          rng |-> res.rng]
    ELSE res

\* WorkloadCompiler._compile_task: the descriptor and the generator state;
\* the else branch returns before batch_sizes is looked at
_compile_task(c, r, task) ==
    IF task.name \in CompiledNames
    THEN WithBatchSizes(CompileByName(c, r, task), task)
    ELSE [val |-> [task_type |-> Upper(task.name), ops_count |-> 0,
                   parameters |-> <<>>],
          rng |-> r]

\* ------------------------------------------------------- compile_workload
\* f"{idx:02d}_{task_name}.json"
Digits(n) ==
    IF n < 10 THEN <<0, n>>
    ELSE IF n < 100 THEN <<n \div 10, n % 10>>
    ELSE <<n \div 100, (n \div 10) % 10, n % 10>>

FileName(idx, task_name) == [index |-> Digits(idx), task |-> task_name]

\* an allow-list that takes every defined task name, whatever the mode
ValidTasks_any(mode) == STRUCTURAL_TASKS \cup PROPERTY_TASKS

\* the allow-list compile_workload selects for a mode
ValidTasks(mode) ==
    IF mode = "structural" THEN STRUCTURAL_TASKS ELSE PROPERTY_TASKS

\* one pass of the loop over enumerate(tasks): the file written for the
\* compiled descriptor d of the task at 0-based position idx
WriteTask(d, tasks, idx) ==
    [files |-> {[name |-> FileName(idx, tasks[idx + 1].name),
                 content |-> d.val]},
     rng |-> d.rng]

\* open(output_file, 'w'): a later file replaces an earlier one of its name
Overwrite(old, new) ==
    {f \in old : \A g \in new : g.name # f.name} \cup new

\* the passes first, then the passes second
WriteJoin(first, second) ==
    [files |-> Overwrite(first.files, second.files), rng |-> second.rng]

\* the passes of the loop for the 0-based positions lo..hi-1, in order; the
\* range is cut in two so that a long task list is not a deep recursion
RECURSIVE WriteRange(_, _, _, _, _)
RECURSIVE WriteRest(_, _, _, _, _)
WriteRest(c, first, tasks, mid, hi) ==
    WriteJoin(first, WriteRange(c, first.rng, tasks, mid, hi))

WriteRange(c, r, tasks, lo, hi) ==
    IF hi <= lo THEN [files |-> {}, rng |-> r]
    ELSE IF hi = lo + 1
    THEN WriteTask(_compile_task(c, r, tasks[lo + 1]), tasks, lo)
    ELSE WriteRest(c, WriteRange(c, r, tasks, lo, (lo + hi) \div 2),
                   tasks, (lo + hi) \div 2, hi)

\* the loop over enumerate(tasks): the files written and the generator state
WriteTasks(c, r, tasks) == WriteRange(c, r, tasks, 0, Len(tasks))

NoSeed == -1

\* an output directory that does not exist
NoDir == [exists |-> FALSE, files |-> {}]

\* if seed is not None: random.seed(seed)
Seeded(seed, r) == IF seed # NoSeed THEN RngSeed(seed) ELSE r

\* compile_workload from the rmtree on: the directory is replaced by the
\* files w of the task loop
WriteOutput(c, w) ==
    /\ compile_result' = "ok"
    /\ compiler' = c
    /\ rng' = w.rng
    /\ out_dir' = [exists |-> TRUE, files |-> w.files]

\* compile_workload after the scan sc
AfterScan(sc) ==
    IF sc.raised # ""
    THEN /\ compile_result' = sc.raised
         /\ compiler' = sc.compiler
         /\ rng' = sc.rng
         /\ UNCHANGED out_dir
    ELSE WriteOutput(sc.compiler,
                     WriteTasks(sc.compiler, sc.rng, call.tasks))

\* WorkloadCompiler.compile_workload(workload_config, dataset_name, seed,
\* dataset_path)
compile_workload ==
    /\ compile_result = "pending"
    /\ IF \E i \in 1..Len(call.tasks) :
             call.tasks[i].name \notin
                 ValidTasks(IF call.mode = "absent" THEN "structural"
                            ELSE call.mode)
       THEN /\ compile_result' = "ValueError: task not valid for mode"
            /\ rng' = Seeded(call.seed, rng)
            /\ UNCHANGED <<compiler, out_dir>>
       ELSE AfterScan(IF call.dataset.path
                      THEN _scan_dataset(compiler, Seeded(call.seed, rng),
                                         call.dataset)
                      ELSE [compiler |-> compiler,
                            rng |-> Seeded(call.seed, rng), raised |-> ""])
    /\ UNCHANGED call
    /\ UNCHANGED <<wvars, xvars>>

\* ------------------------------------------------------------- behaviours
\* ProgressServer.start() with the launcher's timeout_callback: the class
\* variables of ProgressHandler and a fresh TimeoutMonitor
InitProgress ==
    /\ restore_expected = FALSE
    /\ timeout_monitor = TRUE
    /\ current_timer = 0
    /\ current_subtask = NoSubtask
    /\ timers = [t \in TimerIds |-> NoTimer]
    /\ ntimers = 0
    /\ callback_log = <<>>
    /\ response = [status |-> 0, body |-> "", warned |-> FALSE]
    /\ cancelled_arms = {}
    /\ superseded_arms = {}
    /\ complete_pending = FALSE

\* a fresh compiler that is never called
IdleCompiler ==
    /\ compiler = NewCompiler
    /\ rng = 0
    /\ out_dir = NoDir
    /\ call = [mode |-> "absent", tasks |-> <<>>, seed |-> NoSeed,
               dataset |-> DsNone]
    /\ compile_result = "idle"

\* one ProgressServer, started; no monitor was replaced
OneServer ==
    /\ server_pc = [s \in Servers |-> IF s = 1 THEN "running" ELSE "absent"]
    /\ orphan_subtask = NoSubtask
    /\ orphan_timers = {}

\* no thread is inside a TimeoutMonitor method
LockFree ==
    /\ lock = 0
    /\ srv = [pc |-> "idle", num_ops |-> 0]

\* a launcher that is not running
IdleLauncher == launcher = [pc |-> "idle"]

IdleRest == OneServer /\ LockFree /\ IdleLauncher

Next ==
    \/ \E req \in Requests : do_POST(req)
    \/ Tick
    \/ \E t \in TimerIds : Expire(t)
    \/ \E t \in TimerIds : _handle_timeout(t)

Init == InitProgress /\ IdleCompiler /\ IdleRest

\* one server whose stop() may be called at any time
StopNext ==
    \/ \E req \in Requests : serve(1, req)
    \/ stop_shutdown(1)
    \/ stop_clear(1)
    \/ stop_server(1)
    \/ Tick
    \/ \E t \in TimerIds : Expire(t)
    \/ \E t \in TimerIds : _handle_timeout(t)

StopSpec == Init /\ [][StopNext]_vars

\* the events of the subtask protocol, well-formed
ProtocolRequests ==
    {req \in Requests :
        /\ req.path = "/progress" /\ req.json
        /\ req.event \in {"subtask_start", "subtask_complete",
                          "restore_complete"}
        /\ req.duration = "num" /\ req.status = "success"
        /\ req.num_ops_tag = "int" => req.num_ops = 1}

\* the server thread and the timer threads, statement by statement
LockNext ==
    \/ \E n \in 1..MaxOps : start_enter(n)
    \/ start_cancel
    \/ start_store
    \/ start_timer
    \/ cancel_enter
    \/ cancel_timer
    \/ cancel_subtask
    \/ Tick
    \/ \E t \in TimerIds : Expire(t)
    \/ \E t \in TimerIds : timeout_enter(t)
    \/ \E t \in TimerIds : timeout_call(t)
    \/ \E t \in TimerIds : timeout_clear(t)

LockSpec == Init /\ [][LockNext]_vars

\* two servers in one process: the second is started, and either is
\* stopped, at any time
TwoServerNext ==
    \/ \E s \in Servers, req \in ProtocolRequests : serve(s, req)
    \/ \E s \in Servers : ProgressServer_start(s)
    \/ \E s \in Servers : stop_shutdown(s)
    \/ \E s \in Servers : stop_clear(s)
    \/ \E s \in Servers : stop_server(s)
    \/ Tick
    \/ \E t \in TimerIds : Expire(t)
    \/ \E t \in TimerIds : _handle_timeout(t)
    \/ \E t \in TimerIds : _handle_timeout_orphan(t)

TwoServerSpec == Init /\ [][TwoServerNext]_vars

Spec == Init /\ [][Next]_vars

\* the timer threads run: time passes and a thread that can step does
FairSpec ==
    /\ Spec
    /\ WF_vars(Tick)
    /\ \A t \in TimerIds : WF_vars(Expire(t)) /\ WF_vars(_handle_timeout(t))

\* ===================================================================
\* Properties of the progress / timeout protocol
\* ===================================================================
ValidEvent(req, kind) ==
    req.path = "/progress" /\ req.json /\ req.event = kind

\* number of calls of the abort callback made for arm a
DeliveryCount(a) ==
    Cardinality({i \in 1..Len(callback_log) : callback_log[i].arm = a})

Pending(a) == current_subtask.arm = a

\* C1: an arm of the watchdog that is neither completed (cancelled) nor
\* replaced by a later arm leads to exactly one call of the abort callback;
\* the call gets the pending subtask's data and leaves the monitor with no
\* current subtask and no current timer; no arm is ever delivered twice.
C1_AbortExactlyOnce ==
    /\ \A a \in TimerIds :
          Pending(a) ~> (\/ DeliveryCount(a) = 1
                         \/ a \in cancelled_arms
                         \/ a \in superseded_arms)
    /\ [](\A a \in TimerIds : DeliveryCount(a) <= 1)
    /\ [][callback_log' # callback_log =>
             /\ current_subtask.arm # 0
             /\ callback_log' = Append(callback_log, current_subtask)
             /\ current_subtask' = NoSubtask
             /\ current_timer' = 0]_vars

\* C1 witness: the only arm made was delivered, its data was passed, and the
\* monitor is cleared
C1_Witness ==
    /\ ntimers = 1
    /\ Len(callback_log) = 1
    /\ callback_log[1].arm = 1
    /\ callback_log[1].timeout_ms = callback_log[1].num_ops * 10
    /\ current_subtask = NoSubtask
    /\ current_timer = 0
    /\ timers[1].st = "done"

\* C2: each arm is delivered at most once, and never once
\* cancel_subtask_timer has run for it, whatever the timer thread had
\* already done; cancel_subtask_timer with nothing armed changes nothing.
C2_CancelSuppresses ==
    /\ [](\A a \in TimerIds :
             /\ DeliveryCount(a) <= 1
             /\ a \in cancelled_arms => DeliveryCount(a) = 0)
    /\ [][\A req \in Requests :
             (/\ ValidEvent(req, "subtask_complete")
              /\ req.duration = "num"
              /\ current_timer = 0
              /\ current_subtask = NoSubtask
              /\ do_POST(req))
             => UNCHANGED <<current_timer, current_subtask, timers, ntimers,
                            callback_log>>]_vars

\* C2 witness: the timer of a cancelled arm had passed its finished test
\* before the cancel, ran _handle_timeout after it, and delivered nothing
C2_Witness ==
    \E a \in TimerIds :
        /\ a \in cancelled_arms
        /\ timers[a].st = "done"
        /\ DeliveryCount(a) = 0

\* C3 (as claimed): after any subtask_complete event has been handled no
\* timer is armed and no current subtask is recorded.
C3_CompleteDisarms ==
    [][\A req \in Requests :
          (ValidEvent(req, "subtask_complete") /\ do_POST(req))
          => /\ current_timer' = 0
             /\ current_subtask' = NoSubtask
             /\ \A t \in TimerIds : timers'[t].st # "waiting"]_vars

\* C4 (as claimed): at most one timer is outstanding, a handled
\* subtask_start leaves no timer armed but the one it created itself, the
\* handler answers 200 and no arm is delivered twice.
C4_OneTimerOutstanding ==
    /\ [](Cardinality({t \in TimerIds : timers[t].st = "waiting"}) <= 1)
    /\ [](\A a \in TimerIds : DeliveryCount(a) <= 1)
    /\ [][\A req \in Requests :
             (ValidEvent(req, "subtask_start") /\ do_POST(req))
             => /\ response'.status = 200
                /\ \A t \in TimerIds :
                      timers'[t].st = "waiting" =>
                          (t = ntimers + 1 /\ GetNumOps(req) > 0)]_vars

\* C5: handling a subtask_start with num_ops > 0 creates a timer whose
\* whole interval of num_ops x 10 ms is still to run, makes it the current
\* timer, and records that value as the current subtask's timeout.
C5_DeadlineIsTenMsPerOp ==
    [][\A req \in Requests :
          (/\ ValidEvent(req, "subtask_start")
           /\ GetNumOps(req) > 0
           /\ do_POST(req))
          => /\ ntimers' = ntimers + 1
             /\ current_timer' = ntimers'
             /\ timers'[ntimers'].st = "waiting"
             /\ ~timers'[ntimers'].finished
             /\ timers'[ntimers'].remaining = GetNumOps(req) * 10
             /\ current_subtask'.arm = ntimers'
             /\ current_subtask'.num_ops = GetNumOps(req)
             /\ current_subtask'.timeout_ms = GetNumOps(req) * 10]_vars

\* C5 witness: a subtask_start with num_ops = 2 has just armed a 20 ms timer
C5_Witness ==
    /\ response.status = 200
    /\ current_timer # 0
    /\ current_timer = current_subtask.arm
    /\ current_subtask.num_ops = 2
    /\ current_subtask.timeout_ms = 20
    /\ timers[current_subtask.arm].st = "waiting"
    /\ timers[current_subtask.arm].remaining = 20

\* C6 (as claimed): restore_expected is true after every subtask_complete,
\* false after a successful restore_complete, and a restore_complete with
\* another status leaves it as it was.
C6_RestoreExpectedFlag ==
    [][\A req \in Requests :
          /\ (ValidEvent(req, "subtask_complete") /\ do_POST(req))
             => restore_expected'
          /\ (ValidEvent(req, "restore_complete") /\ do_POST(req))
             => IF req.status = "success"
                THEN ~restore_expected'
                ELSE UNCHANGED restore_expected]_vars

\* C7 (as claimed): a subtask_start whose last preceding protocol event is
\* a subtask_complete is warned about, answered 200, arms the watchdog when
\* num_ops > 0, and causes no abort callback.
C7_StartBeforeRestoreWarns ==
    [][\A req \in Requests :
          (/\ ValidEvent(req, "subtask_start")
           /\ complete_pending
           /\ do_POST(req))
          => /\ response'.warned
             /\ response'.status = 200
             /\ callback_log' = callback_log
             /\ GetNumOps(req) > 0 =>
                   (current_subtask'.arm = ntimers' /\ ntimers' = ntimers + 1)]_vars

\* C8 (as claimed): a POST to /progress with a JSON body of one of the
\* twelve kinds is answered 200 with the fixed body; any other path or a
\* malformed body is answered with another status and changes neither
\* restore_expected nor the watchdog.
C8_EveryEventAcknowledged ==
    [][\A req \in Requests :
          do_POST(req) =>
             IF req.path = "/progress" /\ req.json
             THEN req.event \in EventKinds =>
                     (response'.status = 200 /\ response'.body = OkBody)
             ELSE /\ response'.status # 200
                  /\ UNCHANGED <<restore_expected, current_timer,
                                 current_subtask, timers, callback_log>>]_vars

\* ------------------------------------------------- behaviours: the compiler
\* an output directory left by an earlier compile of the same dataset name
OldDir ==
    [exists |-> TRUE,
     files |-> {[name |-> FileName(0, "add_vertex"),
                 content |-> [task_type |-> "ADD_VERTEX", ops_count |-> 7,
                              parameters |-> [count |-> 7]]]}]

Seeds == {NoSeed, 1, 2}

\* a fresh compiler, any state of the generator (a fixed one where the call
\* seeds it), the output directory absent or left by an earlier run, and
\* the arguments of one compile_workload call
CompileInit ==
    /\ InitProgress
    /\ IdleRest
    /\ compiler = NewCompiler
    /\ out_dir \in {NoDir, OldDir}
    /\ call \in [mode : Modes, tasks : TaskLists, seed : Seeds,
                  dataset : Datasets]
    /\ rng \in 0..(RngMod - 1)
    /\ (call.seed # NoSeed => rng = 0)
    /\ compile_result = "pending"

CompileNext == compile_workload

CompileSpec == CompileInit /\ [][CompileNext]_vars

\* the launcher's loop over the datasets: after a compile that returned, the
\* same WorkloadCompiler instance is called again with the same workload
\* and seed for the next dataset
next_call ==
    /\ compile_result = "ok"
    /\ \E d \in Datasets :
          call' = [call EXCEPT !.dataset = d]
    /\ compile_result' = "pending"
    /\ UNCHANGED <<compiler, rng, out_dir>>
    /\ UNCHANGED <<wvars, xvars>>

\* a session of the launcher: a workload of at most one task
SessionInit ==
    /\ CompileInit
    /\ Len(call.tasks) <= 1
    /\ out_dir = NoDir

SessionNext == compile_workload \/ next_call

SessionSpec == SessionInit /\ [][SessionNext]_vars

\* the sample sizes an instance may carry: the shipped SAMPLE_SIZE and small
\* ones that the modelled datasets exceed
MaxSample == 3

SampleSizes == 1..MaxSample \cup {SAMPLE_SIZE}

\* workloads of at most one task, of every defined kind and every number of
\* operations from none to more than any modelled snapshot holds
OpsTaskSpecs ==
    {MkTask(n, k, FALSE, <<>>, "") :
        n \in STRUCTURAL_TASKS \cup PROPERTY_TASKS, k \in 0..(MaxTaskOps + 2)}

ScanTaskLists == {<<>>} \cup {<<t>> : t \in OpsTaskSpecs}

\* one compile_workload call on an instance whose SAMPLE_SIZE attribute is
\* any of SampleSizes, over well-formed and malformed datasets
ScanInit ==
    /\ InitProgress
    /\ IdleRest
    /\ compiler \in {[NewCompiler EXCEPT !.SAMPLE_SIZE = k] : k \in SampleSizes}
    /\ out_dir = NoDir
    /\ call \in [mode : Modes, tasks : ScanTaskLists, seed : Seeds,
                  dataset : ScanDatasets]
    /\ rng \in 0..(RngMod - 1)
    /\ (call.seed # NoSeed => rng = 0)
    /\ compile_result = "pending"

ScanNext == compile_workload

ScanSpec == ScanInit /\ [][ScanNext]_vars

\* ===================================================================
\* The benchmark launcher
\* ===================================================================
\* number of datasets of a run
MaxDatasets == 3

DatasetIds == 1..MaxDatasets

\* BenchmarkLauncher.run from the loop over the datasets on, taken after a
\* compile that returned.  launcher is
\*   pc         "loop" at the head of the loop for dataset i, "execute" in the
\*              inner try, "finally" in the inner finally, "exit" in the
\*              outer finally, "done" when run() has returned or raised
\*   n          the number of datasets to test
\*   containers the docker container started for each dataset: "none",
\*              "running", "stopped" (by the timeout callback) or "removed"
\*   current_container  self.current_container, 0 for None
\*   saved      the datasets whose results file was written
\*   raised     the exception that leaves run(), "" if none
NewRun(n) ==
    [pc |-> "loop", i |-> 1, n |-> n,
     containers |-> [d \in DatasetIds |-> "none"],
     current_container |-> 0, saved |-> {}, raised |-> ""]

LauncherUnchanged == UNCHANGED <<wvars, cvars, svars, lvars>>

\* the loop is over: the outer finally is entered
loop_end ==
    /\ launcher.pc = "loop"
    /\ launcher.i > launcher.n
    /\ launcher' = [launcher EXCEPT !.pc = "exit"]
    /\ LauncherUnchanged

\* get_dataset_path returned None: continue
skip_dataset ==
    /\ launcher.pc = "loop"
    /\ launcher.i <= launcher.n
    /\ launcher' = [launcher EXCEPT !.i = launcher.i + 1]
    /\ LauncherUnchanged

\* DockerManager.start_container called at lines 122-128, outside the inner
\* try: containers.run raises, or the container runs and
\* _wait_for_container_ready either returns or raises TimeoutError
start_container(outcome) ==
    /\ launcher.pc = "loop"
    /\ launcher.i <= launcher.n
    /\ launcher' =
          CASE outcome = "run_failed" ->
                 [launcher EXCEPT !.pc = "exit", !.raised = "APIError"]
            [] outcome = "not_ready" ->
                 [launcher EXCEPT !.pc = "exit", !.raised = "TimeoutError",
                                  !.containers[launcher.i] = "running"]
            [] outcome = "ready" ->
                 [launcher EXCEPT !.pc = "execute",
                                  !.containers[launcher.i] = "running",
                                  !.current_container = launcher.i]
    /\ LauncherUnchanged

\* the inner try: execute_benchmark and the save of the results, with the
\* except clause that swallows every Exception.  On "aborted" the timeout
\* callback has stopped self.current_container and the request failed
execute_benchmark(outcome) ==
    /\ launcher.pc = "execute"
    /\ launcher' =
          CASE outcome = "saved" ->
                 [launcher EXCEPT !.pc = "finally",
                                  !.saved = launcher.saved \cup {launcher.i}]
            [] outcome = "failed" -> [launcher EXCEPT !.pc = "finally"]
            [] outcome = "aborted" ->
                 [launcher EXCEPT
                     !.pc = "finally",
                     !.containers[launcher.current_container] = "stopped"]
    /\ LauncherUnchanged

\* the inner finally: current_container = None and
\* DockerManager.stop_container, which swallows a failure of stop() or
\* remove() and leaves the container as it is
stop_container(stopped) ==
    /\ launcher.pc = "finally"
    /\ launcher' =
          [launcher EXCEPT
              !.pc = "loop",
              !.i = launcher.i + 1,
              !.current_container = 0,
              !.containers[launcher.i] =
                  IF stopped THEN "removed" ELSE launcher.containers[launcher.i]]
    /\ LauncherUnchanged

\* the outer finally: progress_server.stop(), then run() returns or raises
run_exit ==
    /\ launcher.pc = "exit"
    /\ launcher' = [launcher EXCEPT !.pc = "done"]
    /\ IF timeout_monitor
       THEN shutdown
       ELSE UNCHANGED <<timers, current_timer, current_subtask>>
    /\ timeout_monitor' = FALSE
    /\ server_pc' = [server_pc EXCEPT ![1] = "stopped"]
    /\ UNCHANGED <<restore_expected, ntimers, callback_log, response,
                   cancelled_arms, superseded_arms, complete_pending>>
    /\ UNCHANGED <<orphan_subtask, orphan_timers>>
    /\ UNCHANGED <<cvars, lvars>>

LaunchInit ==
    /\ InitProgress
    /\ IdleCompiler
    /\ OneServer
    /\ LockFree
    /\ launcher \in {NewRun(n) : n \in 0..MaxDatasets}

LaunchNext ==
    \/ loop_end
    \/ skip_dataset
    \/ \E outcome \in {"run_failed", "not_ready", "ready"} :
          start_container(outcome)
    \/ \E outcome \in {"saved", "failed", "aborted"} :
          execute_benchmark(outcome)
    \/ \E stopped \in BOOLEAN : stop_container(stopped)
    \/ run_exit

LaunchSpec == LaunchInit /\ [][LaunchNext]_vars

\* ===================================================================
\* Properties of the workload compiler
\* ===================================================================
\* the allow-list the documentation gives for a defined mode; a workload
\* without a mode is a structural one
AllowList(mode) ==
    IF mode = "property" THEN PROPERTY_TASKS ELSE STRUCTURAL_TASKS

HasTaskOutside(tasks, allowed) ==
    \E i \in 1..Len(tasks) : tasks[i].name \notin allowed

\* C9: a compile_workload call whose task list has a name outside the
\* allow-list of its (defined) mode raises the ValueError of the validation
\* and leaves the output directory as it was: nothing written, nothing removed.
C9_InvalidTaskRejected ==
    [][(/\ compile_workload
        /\ call.mode \in {"absent", "structural", "property"}
        /\ HasTaskOutside(call.tasks, AllowList(call.mode)))
       => /\ compile_result' = "ValueError: task not valid for mode"
          /\ UNCHANGED out_dir]_vars

\* C9 witness: a property workload whose second task is a structural one was
\* rejected, and the directory of the earlier compile is intact
C9_Witness ==
    /\ compile_result = "ValueError: task not valid for mode"
    /\ call.mode = "property"
    /\ Len(call.tasks) = 2
    /\ call.tasks[1].name = "update_vertex_property"
    /\ call.tasks[2].name = "add_edge"
    /\ call.dataset = DsPlain
    /\ out_dir = OldDir

\* C10 (as claimed): a compile_workload call whose mode is none of the
\* defined modes fails and writes nothing.
C10_InvalidModeRejected ==
    [][(compile_workload /\ call.mode \notin {"absent", "structural", "property"})
       => /\ compile_result' # "ok"
          /\ UNCHANGED out_dir]_vars

\* the elements of a list
Range(seq) == {seq[i] : i \in 1..Len(seq)}

NoRepeats(seq) == \A i, j \in 1..Len(seq) : i # j => seq[i] # seq[j]

Min(a, b) == IF a < b THEN a ELSE b

\* the descriptor written for the task at 0-based position idx of the call
Artifact(idx) ==
    (CHOOSE f \in out_dir.files :
        f.name = FileName(idx, call.tasks[idx + 1].name)).content

\* C11 (as claimed): after a compile the ids of every remove_vertex
\* descriptor and the (src, dst) pairs of every remove_edge descriptor have no
\* repeated entry, and each is one of the snapshot's sampled nodes / edges.
C11_RemovalsDistinct ==
    compile_result = "ok" =>
        \A f \in out_dir.files :
            /\ f.content.task_type = "REMOVE_VERTEX" =>
                 /\ NoRepeats(f.content.parameters.ids)
                 /\ Range(f.content.parameters.ids)
                        \subseteq Range(compiler.sampled_nodes)
            /\ f.content.task_type = "REMOVE_EDGE" =>
                 /\ NoRepeats(f.content.parameters.pairs)
                 /\ \A p \in Range(f.content.parameters.pairs) :
                        <<p.src, p.dst>> \in Range(compiler.sampled_edges)

\* C12 (as claimed): the ops_count of a compiled remove_vertex / remove_edge
\* task is the smaller of the requested ops and the number of distinct
\* sampled nodes / edges.
C12_ClampToUnique ==
    compile_result = "ok" =>
        \A i \in 1..Len(call.tasks) :
            /\ call.tasks[i].name = "remove_vertex" =>
                 Artifact(i - 1).ops_count =
                     Min(call.tasks[i].ops,
                         Cardinality(Range(compiler.sampled_nodes)))
            /\ call.tasks[i].name = "remove_edge" =>
                 Artifact(i - 1).ops_count =
                     Min(call.tasks[i].ops,
                         Cardinality(Range(compiler.sampled_edges)))

\* the scan a new WorkloadCompiler instance makes for the call c
FreshScan(c) ==
    IF c.dataset.path
    THEN _scan_dataset(NewCompiler, Seeded(c.seed, 0), c.dataset)
    ELSE [compiler |-> NewCompiler, rng |-> Seeded(c.seed, 0), raised |-> ""]

\* the files the task loop writes after the scan sc
ArtifactsOf(sc, tasks) == WriteTasks(sc.compiler, sc.rng, tasks).files

\* the artifacts of the call c made on a new instance
FreshArtifacts(c) == ArtifactsOf(FreshScan(c), c.tasks)

\* C13 (as claimed): a seeded compile_workload call that scans a dataset, on
\* an instance that made other compiles before, writes the same artifacts as
\* the same call (same seed, workload and dataset) made first on that
\* instance.
C13_SameInputsSameArtifacts ==
    [][(/\ compile_workload
        /\ call.seed # NoSeed
        /\ call.dataset.path
        /\ compile_result' = "ok")
       => out_dir'.files = FreshArtifacts(call)]_vars

\* C18 (as claimed): the snapshot a compile_workload call that scans a
\* dataset leaves on the instance holds only what the scan of that dataset
\* gives: it is the snapshot a new instance has after the same call.
C18_SnapshotScopedToCall ==
    [][(compile_workload /\ call.dataset.path /\ compile_result' = "ok")
       => compiler' = FreshScan(call).compiler]_vars

\* the descriptor of a task compiled as the only task of the call c on a new
\* instance
CompiledAlone(sc, task) == _compile_task(sc.compiler, sc.rng, task).val

\* C14 (as claimed): with the seed and the dataset fixed, the descriptor
\* written for a task is the one the same task gets when it is the only
\* task of the workload, whatever other tasks the list holds.
C14_TaskIndependent ==
    (compile_result = "ok" /\ call.seed # NoSeed /\ compiler = FreshScan(call).compiler)
        => \A i \in 1..Len(call.tasks) :
               Artifact(i - 1) = CompiledAlone(FreshScan(call), call.tasks[i])

\* the canonical value of a property of the entity id; the number is kept in
\* the id field: hundredths for weight, years for age, 1 / 0 for flag
Canonical(id, key) ==
    CASE key = "weight" ->
           [fmt |-> "hundredths", id |-> id % 100, key |-> "", text |-> ""]
      [] key = "age" ->
           [fmt |-> "int", id |-> (id % 90) + 10, key |-> "", text |-> ""]
      [] key = "flag" ->
           [fmt |-> "bool", id |-> IF id % 2 = 0 THEN 1 ELSE 0, key |-> "",
            text |-> ""]

CanonicalKeys == {"weight", "age", "flag"}

\* no property value of node v was sampled
NoNodeData(c, v) == DictGet(c.sampled_node_props, v) = <<>>

\* the property values the scan stored for the sampled nodes
SampledNodeValues(c) ==
    UNION {{p.value : p \in Range(e.value)} :
              e \in Range(c.sampled_node_props)}

\* C15 (as claimed): for a node without sampled property data the value an
\* update_vertex_property task writes, and the value a
\* get_vertex_by_property query carries when it is not a sampled one, for
\* the key weight, age or flag is the canonical mapping of the node id.
C15_FallbackIsCanonical ==
    compile_result = "ok" =>
        /\ \A f \in out_dir.files :
              f.content.task_type = "UPDATE_VERTEX_PROPERTY" =>
                  \A u \in Range(f.content.parameters.updates) :
                      NoNodeData(compiler, u.id) =>
                          \A p \in Range(u.properties) :
                              p.key \in CanonicalKeys =>
                                  p.value = Canonical(u.id, p.key)
        /\ \A f \in out_dir.files :
              f.content.task_type = "GET_VERTEX_BY_PROPERTY" =>
                  \A q \in Range(f.content.parameters.queries) :
                      (/\ q.key \in CanonicalKeys
                       /\ q.value \notin SampledNodeValues(compiler))
                      => \E v \in Range(compiler.sampled_nodes) :
                             /\ NoNodeData(compiler, v)
                             /\ q.value = Canonical(v, q.key)

\* the node ids and edge pairs of the datasets, and the ids (1, (1,2)) the
\* compiler falls back to
EntityIds == 1..3

EntityPairs == EntityIds \X EntityIds

RngStates == 0..(RngMod - 1)

\* no property value of edge e was sampled
NoEdgeData(c, e) == DictGet(c.sampled_edge_props, e) = <<>>

\* the values a list of written properties has for a key
Written(props, key) == {p.value : p \in {x \in Range(props) : x.key = key}}

\* the get query compiled for node v on instance cg with the generator in
\* state r agrees with the update of v compiled on instance cu
NodeAgrees(cg, cu, v, r) ==
    Written(NodeItem(cu, [val |-> v, rng |-> r], TRUE).val.properties,
            NodeItem(cg, [val |-> v, rng |-> r], FALSE).val.key)
        \subseteq {NodeItem(cg, [val |-> v, rng |-> r], FALSE).val.value}

EdgeAgrees(cg, cu, e, r) ==
    Written(EdgeItem(cu, [val |-> e, rng |-> r], TRUE).val.properties,
            EdgeItem(cg, [val |-> e, rng |-> r], FALSE).val.key)
        \subseteq {EdgeItem(cg, [val |-> e, rng |-> r], FALSE).val.value}

\* get compiled on cg, update on cu, for every entity without sampled data
\* on cg and every state of the generator
ReadsAgreeWithWrites(cg, cu) ==
    /\ \A v \in EntityIds, r \in RngStates :
          NoNodeData(cg, v) => NodeAgrees(cg, cu, v, r)
    /\ \A e \in EntityPairs, r \in RngStates :
          NoEdgeData(cg, e) => EdgeAgrees(cg, cu, e, r)

\* C16: for a node or edge without sampled property data, the value a
\* get_*_by_property query carries for a key is the value an
\* update_*_property task writes for that key and entity, in every state of
\* the generator, with both compiled in the same call (the snapshot after
\* the call) or in two consecutive calls (the snapshots before and after).
C16_ReadAgreesWithWrite ==
    [][compile_workload =>
          /\ ReadsAgreeWithWrites(compiler', compiler')
          /\ ReadsAgreeWithWrites(compiler, compiler')
          /\ ReadsAgreeWithWrites(compiler', compiler)]_vars

\* C16 witness: a call compiled a get_vertex_by_property query for
\* node 3, which has property columns but no sampled value, and the query
\* carries what an update of node 3 writes for age
C16_Witness ==
    /\ compile_result = "ok"
    /\ out_dir.exists
    /\ NoNodeData(compiler, 3)
    /\ compiler.node_property_keys = <<"age", "name">>
    /\ \E f \in out_dir.files :
          /\ f.content.task_type = "GET_VERTEX_BY_PROPERTY"
          /\ Prop("age", Updated(3, "age"))
                 \in Range(f.content.parameters.queries)
    /\ Updated(3, "age") \in
          Written(NodeItem(compiler, [val |-> 3, rng |-> rng], TRUE)
                      .val.properties, "age")

DefinedModes == {"absent", "structural", "property"}

\* C17 (as claimed): for a workload of a defined mode whose tasks are all on
\* the mode's allow-list, the descriptor of a task that has batch_sizes
\* carries the same batch_sizes, and the descriptor of a task without them
\* has no such field.
C17_BatchSizesPassThrough ==
    (/\ compile_result = "ok"
     /\ call.mode \in DefinedModes
     /\ ~HasTaskOutside(call.tasks, AllowList(call.mode)))
    => \A i \in 1..Len(call.tasks) :
           IF call.tasks[i].has_batch_sizes
           THEN /\ "batch_sizes" \in DOMAIN Artifact(i - 1)
                /\ Artifact(i - 1).batch_sizes = call.tasks[i].batch_sizes
           ELSE "batch_sizes" \notin DOMAIN Artifact(i - 1)

\* the characters of a file name up to the task name, as code points: the
\* digits of the index, then the underscore, which sorts after every digit
NamePrefix(name) ==
    [i \in 1..(Len(name.index) + 1) |->
        IF i <= Len(name.index) THEN 48 + name.index[i] ELSE 95]

\* string order of two such prefixes that differ
RECURSIVE LexLess(_, _)
LexLess(a, b) ==
    IF a = <<>> THEN b # <<>>
    ELSE IF b = <<>> THEN FALSE
    ELSE IF a[1] # b[1] THEN a[1] < b[1]
    ELSE LexLess(Tail(a), Tail(b))

\* C19 (as claimed): a compile writes one file per task, named by the
\* task's 0-based position and name, and the order of the file names is the
\* order of the tasks.
C19_OneArtifactPerTaskInOrder ==
    compile_result = "ok" =>
        /\ Cardinality(out_dir.files) = Len(call.tasks)
        /\ \A i \in 1..Len(call.tasks) :
              \E f \in out_dir.files :
                  f.name = FileName(i - 1, call.tasks[i].name)
        /\ \A i, j \in 1..Len(call.tasks) :
              i < j => LexLess(
                  NamePrefix(FileName(i - 1, call.tasks[i].name)),
                  NamePrefix(FileName(j - 1, call.tasks[j].name)))

\* C20 (as claimed): an add_edge descriptor has ops pairs and a get_nbrs
\* descriptor ops ids, and every endpoint / id is one of the snapshot's
\* sampled nodes.
C20_EndpointsAreSampled ==
    compile_result = "ok" =>
        \A i \in 1..Len(call.tasks) :
            /\ call.tasks[i].name = "add_edge" =>
                 /\ Len(Artifact(i - 1).parameters.pairs) = call.tasks[i].ops
                 /\ \A p \in Range(Artifact(i - 1).parameters.pairs) :
                        {p.src, p.dst} \subseteq Range(compiler.sampled_nodes)
            /\ call.tasks[i].name = "get_nbrs" =>
                 /\ Len(Artifact(i - 1).parameters.ids) = call.tasks[i].ops
                 /\ Range(Artifact(i - 1).parameters.ids)
                        \subseteq Range(compiler.sampled_nodes)

\* C27 (as claimed): handling a subtask_start leaves restore_expected as it
\* was, so a subtask_start that comes while the flag is set is warned about
\* and leaves it set for the next one.
C27_StartKeepsRestoreExpected ==
    [][\A req \in Requests :
          (ValidEvent(req, "subtask_start") /\ do_POST(req))
          => /\ UNCHANGED restore_expected
             /\ response'.warned = restore_expected]_vars

\* the number of concrete operations a descriptor carries in its parameters
OpsCarried(d) ==
    CASE d.task_type = "ADD_VERTEX" -> d.parameters.count
      [] d.task_type \in {"REMOVE_VERTEX", "GET_NBRS"} -> Len(d.parameters.ids)
      [] d.task_type \in {"ADD_EDGE", "REMOVE_EDGE"} -> Len(d.parameters.pairs)
      [] d.task_type \in {"UPDATE_VERTEX_PROPERTY", "UPDATE_EDGE_PROPERTY"} ->
           Len(d.parameters.updates)
      [] d.task_type \in {"GET_VERTEX_BY_PROPERTY", "GET_EDGE_BY_PROPERTY"} ->
           Len(d.parameters.queries)
      [] OTHER -> 0

Count(seq, x) == Cardinality({i \in 1..Len(seq) : seq[i] = x})

\* every entry of sample is an entry of rows, no more often than in rows
SubBag(sample, rows) ==
    \A x \in Range(sample) : Count(sample, x) <= Count(rows, x)

NodeIds(ds) == [i \in 1..Len(ds.nodes) |-> ds.nodes[i].id]

EdgePairs(ds) ==
    [i \in 1..Len(ds.edges) |-> <<ds.edges[i].src, ds.edges[i].dst>>]

\* C21: after a compile that scanned a dataset of N node and M edge records,
\* sampled_nodes has min(N, SAMPLE_SIZE) entries and sampled_edges has
\* min(M, SAMPLE_SIZE), each a record of the dataset, never more than
\* SAMPLE_SIZE.
C21_SampleSizeIsMin ==
    (compile_result = "ok" /\ call.dataset.path) =>
        /\ Len(compiler.sampled_nodes)
              = Min(Len(call.dataset.nodes), compiler.SAMPLE_SIZE)
        /\ Len(compiler.sampled_edges)
              = Min(Len(call.dataset.edges), compiler.SAMPLE_SIZE)
        /\ SubBag(compiler.sampled_nodes, NodeIds(call.dataset))
        /\ SubBag(compiler.sampled_edges, EdgePairs(call.dataset))
        /\ Len(compiler.sampled_nodes) <= compiler.SAMPLE_SIZE
        /\ Len(compiler.sampled_edges) <= compiler.SAMPLE_SIZE

\* C21 witness: a scan of a dataset with more node and more edge records
\* than SAMPLE_SIZE that kept SAMPLE_SIZE of each.
C21_Witness ==
    /\ compile_result = "ok"
    /\ call.dataset.path
    /\ Len(call.dataset.nodes) > compiler.SAMPLE_SIZE
    /\ Len(call.dataset.edges) > compiler.SAMPLE_SIZE
    /\ Len(compiler.sampled_nodes) = compiler.SAMPLE_SIZE
    /\ Len(compiler.sampled_edges) = compiler.SAMPLE_SIZE

\* C22 (as claimed): a compile over a dataset that has its node_id, src and
\* dst columns does not fail in the scan, whatever rows are malformed: the
\* malformed rows are left out and the others are sampled.
C22_MalformedRecordsSkipped ==
    (/\ compile_result # "pending"
     /\ call.dataset.path
     /\ call.dataset.has_node_id
     /\ call.dataset.has_src_dst)
    => /\ compile_result \in {"ok", "ValueError: task not valid for mode"}
       /\ compile_result = "ok" =>
             /\ NaN \notin Range(compiler.sampled_nodes)
             /\ \A e \in Range(compiler.sampled_edges) :
                   e[1] # NaN /\ e[2] # NaN

\* C24 (as claimed): when the thread of timer t runs _handle_timeout, the
\* abort callback is called only for the subtask that timer was armed for,
\* and a timer armed for a newer subtask stays the tracked one.
C24_LateTimerHarmless ==
    [][\A t \in TimerIds :
          _handle_timeout(t) =>
             /\ callback_log' # callback_log => current_subtask.arm = t
             /\ current_timer \notin {0, t} =>
                   UNCHANGED <<current_timer, current_subtask>>]_vars

\* C28 (as claimed): once stop() of the server has returned, no timer is
\* armed and the abort callback is not called any more.
C28_NothingAfterStop ==
    /\ [](server_pc[1] = "stopped" =>
             \A t \in TimerIds : timers[t].st # "waiting")
    /\ [][server_pc[1] = "stopped" => callback_log' = callback_log]_vars

\* a step of server s: a request it handles, its start or a step of its stop
ServerStep(s) ==
    \/ \E req \in Requests : serve(s, req)
    \/ ProgressServer_start(s)
    \/ stop_shutdown(s)
    \/ stop_clear(s)
    \/ stop_server(s)

\* C25 (as claimed): a step of one server leaves the restore_expected flag
\* and the watchdog used by another running server as they were, and a
\* server that has just started has restore_expected false.
C25_ServersDoNotInterfere ==
    [][\A s \in Servers :
          /\ (ServerStep(s) /\ \E o \in Servers \ {s} : server_pc[o] = "running")
             => UNCHANGED <<restore_expected, timeout_monitor,
                            current_subtask, current_timer>>
          /\ ProgressServer_start(s) => ~restore_expected']_vars

InMonitor ==
    (IF srv.pc # "idle" THEN {ServerThread} ELSE {})
    \cup {t \in TimerIds : timers[t].st \in {"locked", "called"}}

\* the two fields describe the same arm, or none
PairConsistent ==
    \/ current_timer = 0 /\ current_subtask = NoSubtask
    \/ current_timer # 0 /\ current_subtask.arm = current_timer

\* C26: a thread that is at a statement reading or writing current_subtask
\* or current_timer, on the event path or on the timer path, holds the lock
\* (so at most one is), the fields change only in steps of the holder, and a
\* state in which only one of the two fields is updated exists only while
\* the updating thread still holds the lock.
C26_FieldsOnlyUnderLock ==
    /\ [](InMonitor \subseteq {lock})
    /\ [](~PairConsistent => (lock # 0 /\ InMonitor = {lock}))
    /\ [][<<current_timer, current_subtask>>' # <<current_timer, current_subtask>>
             => (lock # 0 /\ InMonitor = {lock})]_vars

\* C26 witness: the server thread holds the lock with current_subtask
\* already replaced and current_timer not yet, while the thread of the old
\* timer has expired and waits to enter _handle_timeout.
C26_Witness ==
    /\ lock = ServerThread
    /\ srv.pc = "start_timer"
    /\ ~PairConsistent
    /\ current_timer # 0
    /\ timers[current_timer].st = "firing"

====
